---- MODULE Spec2Model ----
(***************************************************************************)
(* Model of the business-card generator: the cleanup sweeper               *)
(* (cleanup_task.py), the card renderer and exporters (card_generator.py,  *)
(* advanced_card_generator.py) and the batch routes (routes.py,            *)
(* new_routes.py).                                                         *)
(*                                                                         *)
(* The specifications of the module:                                       *)
(*   SpecSweep    the FileCleanupManager service, its loop thread and the   *)
(*                files of the directories                                 *)
(*   SpecService  the service under concurrent callers of start and stop   *)
(*   SpecRender   construction of a generator and generate_card            *)
(*   SpecQr       the vCard text of the QR code                            *)
(*   SpecExport   the export calls and the batch routes, one request at a  *)
(*                time                                                     *)
(*   SpecUpload   save_card_data for two browser sessions                  *)
(*   SpecServe    downloads of exported cards while the sweeper runs       *)
(*   SpecSweepErr the sweeper among files that vanish or raise             *)
(*   SpecFrame    the sweeper next to uploads and subdirectories           *)
(*   SpecClean    the writers of files and the sweeper, with fairness      *)
(***************************************************************************)
EXTENDS Integers, Sequences, FiniteSets, TLC

(***************************************************************************)
(* Bounds of the model and constants of the program.                       *)
(***************************************************************************)
MaxTime == 120          \* the clock stops advancing here
TimeStep == 30          \* seconds the clock advances in one Tick
MaxThreads == 2         \* cleanup threads ever created

CleanupInterval == 60   \* FileCleanupManager.__init__ cleanup_interval
SleepSeconds == 30      \* time.sleep(30) in _cleanup_loop

NoThread == 0           \* self.cleanup_thread = None

Threads == 1..MaxThreads

\* the threads that call start/stop: "main" is the import of app.py
Callers == {"main", "worker"}

VARIABLES
    now,             \* time.time(), in seconds
    fs,              \* the file system: path -> modification time
    running,         \* FileCleanupManager.running
    cleanup_thread,  \* FileCleanupManager.cleanup_thread (thread id or None)
    nextThread,      \* id of the next Thread object to be created
    tpc,             \* position of each cleanup thread
    ttick,           \* current_time local of each thread's current sweep
    tpat,            \* index of the pattern the sweep is at
    tlist,           \* files = glob.glob(...) still to visit
    twake,           \* time at which time.sleep(30) returns
    cpc,             \* position of each caller of start/stop
    cjoin,           \* the thread a stop call joins
    stopped,         \* history: a stop call has returned and no start since
    lastDeleted,     \* history: the last file os.remove'd by the sweeper
    card_width,      \* self.card_width of the generator of each class
    card_height,     \* self.card_height of the generator of each class
    constructed,     \* outcome of the last constructor call of each class
    rin,             \* the arguments of the last render call
    rout,            \* what the last render call returned or raised
    qin,             \* the arguments of the last QR call
    qout,            \* the vCard text the last QR call encoded
    uuidCtr,         \* the uuid4() values drawn so far
    calls,           \* the export and batch calls made so far
    returned,        \* history: the path each export call returned
    epc,             \* position of the request being handled
    breq,            \* the batch request: route, header, format
    resp,            \* the response of the last batch route
    bzip,            \* zip_filepath / zip_path of the batch call
    bi,              \* rows of csv_data read so far (i + 1)
    brow,            \* the row being processed
    bfile,           \* file_path of the row being processed
    bentries,        \* the entries written into the archive
    boutcomes,       \* history: what became of each row
    pdf,             \* the page layout of the last PDF an export wrote
    hdcall,          \* the locals of the export_png_hd call in progress
    session,         \* session['card_data'] of each browser session
    flashed,         \* the messages flash()ed to each session
    uploaded,        \* what each file of the upload folder holds
    submitted,       \* history: the save_card_data requests handled
    serving,         \* the files send_file responses are streaming
    lastError        \* history: the last file a sweep got an exception on

sweepVars == <<now, fs, running, cleanup_thread, nextThread, tpc, ttick, tpat,
               tlist, twake, cpc, cjoin, stopped, lastDeleted>>
renderVars == <<card_width, card_height, constructed, rin, rout, qin, qout>>
exportVars == <<uuidCtr, calls, returned, epc, breq, resp, bzip, bi, brow,
                bfile, bentries, boutcomes, pdf, hdcall>>
webVars == <<session, flashed, uploaded, submitted, serving>>
vars == <<sweepVars, renderVars, exportVars, webVars, lastError>>

\* what the steps of the sweeper and of its callers below leave alone
nonSweepVars == <<renderVars, exportVars, webVars, lastError>>

(***************************************************************************)
(* Files.  A path is a directory, a name and an extension.                  *)
(***************************************************************************)
ExportFolder == "exports"
PreviewFolder == "static/previews"
UploadFolder == "uploads"

\* <dir>/<prefix>_<id>.<ext>; id is a uuid or a timestamp, 0 when there is none
Path(dir, prefix, id, ext) ==
    [dir |-> dir, prefix |-> prefix, id |-> id, ext |-> ext]

\* glob's "*" does not match a leading dot
HiddenPrefixes == {".cache"}

ExportPatterns ==
    << [dir |-> ExportFolder,  ext |-> "png"],
       [dir |-> ExportFolder,  ext |-> "pdf"],
       [dir |-> ExportFolder,  ext |-> "html"],
       [dir |-> ExportFolder,  ext |-> "zip"] >>

\* for file_pattern in [...] of the export folder, then of the preview folder
Patterns ==
    << [dir |-> ExportFolder,  ext |-> "png"],
       [dir |-> ExportFolder,  ext |-> "pdf"],
       [dir |-> ExportFolder,  ext |-> "html"],
       [dir |-> ExportFolder,  ext |-> "zip"],
       [dir |-> PreviewFolder, ext |-> "png"],
       [dir |-> PreviewFolder, ext |-> "jpg"],
       [dir |-> PreviewFolder, ext |-> "jpeg"] >>

MatchesAnyName(pat, p) == p.dir = pat.dir

MatchesAnyFolder(pat, p) == p.ext = pat.ext

\* glob.glob(os.path.join(folder, '*.ext')): the direct children of folder
\* named <name>.<ext>, the name not starting with a dot
Matches(pat, p) ==
    /\ p.dir = pat.dir
    /\ p.ext = pat.ext
    /\ p.prefix \notin HiddenPrefixes

Swept(p) == \E k \in 1..Len(Patterns) : Matches(Patterns[k], p)

GlobFiles(pat, files) == {p \in DOMAIN files : Matches(pat, p)}

CutoffNoInterval(current_time) == current_time

\* cutoff_time = current_time - self.cleanup_interval
CutoffTime(current_time) == current_time - CleanupInterval

NeverExpired(mtime, cutoff) == FALSE

\* os.path.getmtime(file_path) < cutoff_time
Expired(mtime, cutoff) == mtime < cutoff

\* files the application's exports and previews write
AppPaths ==
    { Path(ExportFolder, "business_card", 1, "png"),
      Path(PreviewFolder, "preview", 1, "png") }

\* files found in the directories that the application did not write
ForeignPaths ==
    { Path(ExportFolder, "notes", 0, "txt"),
      Path(PreviewFolder, ".cache", 0, "png") }

RemoveFile(files, p) == [q \in DOMAIN files \ {p} |-> files[q]]
WriteFile(files, p, t) ==
    [q \in DOMAIN files \cup {p} |-> IF q = p THEN t ELSE files[q]]

NoDeletion == [path |-> "none"]

(***************************************************************************)
(* The clock and the writers of files.                                     *)
(***************************************************************************)
Tick ==
    /\ now + TimeStep <= MaxTime
    /\ now' = now + TimeStep
    /\ UNCHANGED <<fs, running, cleanup_thread, nextThread, tpc, ttick, tpat,
                   tlist, twake, cpc, cjoin, stopped, lastDeleted>>
    /\ UNCHANGED nonSweepVars

\* card_img.save(filepath) and the like: a file appears with mtime = now
AppWrite(p) ==
    /\ p \notin DOMAIN fs
    /\ fs' = WriteFile(fs, p, now)
    /\ UNCHANGED <<now, running, cleanup_thread, nextThread, tpc, ttick, tpat,
                   tlist, twake, cpc, cjoin, stopped, lastDeleted>>
    /\ UNCHANGED nonSweepVars

\* a file some other program or user puts into a directory
ForeignWrite(p) ==
    /\ p \notin DOMAIN fs
    /\ fs' = WriteFile(fs, p, now)
    /\ UNCHANGED <<now, running, cleanup_thread, nextThread, tpc, ttick, tpat,
                   tlist, twake, cpc, cjoin, stopped, lastDeleted>>
    /\ UNCHANGED nonSweepVars

(***************************************************************************)
(* FileCleanupManager.start_cleanup_service / stop_cleanup_service.        *)
(***************************************************************************)
Spawning == {c \in Callers : cpc[c] = "start_spawn"}

\* if not self.running:
StartCheck(c) ==
    /\ cpc[c] = "idle"
    /\ nextThread + Cardinality(Spawning) <= MaxThreads
    /\ cpc' = [cpc EXCEPT ![c] = IF running THEN "idle" ELSE "start_spawn"]
    /\ UNCHANGED <<now, fs, running, cleanup_thread, nextThread, tpc, ttick,
                   tpat, tlist, twake, cjoin, stopped, lastDeleted>>
    /\ UNCHANGED nonSweepVars

\* self.running = True; self.cleanup_thread = Thread(...); .start()
StartSpawn(c) ==
    /\ cpc[c] = "start_spawn"
    /\ running' = TRUE
    /\ cleanup_thread' = nextThread
    /\ tpc' = [tpc EXCEPT ![nextThread] = "check"]
    /\ nextThread' = nextThread + 1
    /\ cpc' = [cpc EXCEPT ![c] = "idle"]
    /\ stopped' = FALSE
    /\ UNCHANGED <<now, fs, ttick, tpat, tlist, twake, cjoin, lastDeleted>>
    /\ UNCHANGED nonSweepVars

\* self.running = False; if self.cleanup_thread: ... join()
StopCall(c) ==
    /\ cpc[c] = "idle"
    /\ running' = FALSE
    /\ IF cleanup_thread # NoThread
         THEN /\ cpc' = [cpc EXCEPT ![c] = "stop_join"]
              /\ cjoin' = [cjoin EXCEPT ![c] = cleanup_thread]
              /\ UNCHANGED stopped
         ELSE /\ stopped' = TRUE
              /\ UNCHANGED <<cpc, cjoin>>
    /\ UNCHANGED <<now, fs, cleanup_thread, nextThread, tpc, ttick, tpat,
                   tlist, twake, lastDeleted>>
    /\ UNCHANGED nonSweepVars

\* self.cleanup_thread.join() returns once the thread has ended
StopJoin(c) ==
    /\ cpc[c] = "stop_join"
    /\ tpc[cjoin[c]] = "exited"
    /\ cpc' = [cpc EXCEPT ![c] = "idle"]
    /\ cjoin' = [cjoin EXCEPT ![c] = NoThread]
    /\ stopped' = ~running
    /\ UNCHANGED <<now, fs, running, cleanup_thread, nextThread, tpc, ttick,
                   tpat, tlist, twake, lastDeleted>>
    /\ UNCHANGED nonSweepVars

(***************************************************************************)
(* FileCleanupManager._cleanup_loop and _cleanup_old_files, one thread.    *)
(***************************************************************************)
\* while self.running:  and the first two lines of _cleanup_old_files
LoopCheck(t) ==
    /\ tpc[t] = "check"
    /\ IF running
         THEN /\ tpc' = [tpc EXCEPT ![t] = "glob"]
              /\ ttick' = [ttick EXCEPT ![t] = now]
         ELSE /\ tpc' = [tpc EXCEPT ![t] = "exited"]
              /\ ttick' = [ttick EXCEPT ![t] = 0]
    /\ UNCHANGED <<now, fs, running, cleanup_thread, nextThread, tpat, tlist,
                   twake, cpc, cjoin, stopped, lastDeleted>>
    /\ UNCHANGED nonSweepVars

\* the loop bookkeeping of _cleanup_old_files once `files` holds `list`: on
\* to its files, or to the next pattern, or to time.sleep(30)
Continue(t, list) ==
    IF list # {}
      THEN /\ tpc' = [tpc EXCEPT ![t] = "files"]
           /\ tlist' = [tlist EXCEPT ![t] = list]
           /\ UNCHANGED <<tpat, twake>>
      ELSE /\ tlist' = [tlist EXCEPT ![t] = {}]
           /\ IF tpat[t] < Len(Patterns)
                THEN /\ tpc' = [tpc EXCEPT ![t] = "glob"]
                     /\ tpat' = [tpat EXCEPT ![t] = tpat[t] + 1]
                     /\ UNCHANGED twake
                ELSE /\ tpc' = [tpc EXCEPT ![t] = "sleep"]
                     /\ tpat' = [tpat EXCEPT ![t] = 1]
                     /\ twake' = [twake EXCEPT ![t] = now + SleepSeconds]

\* files = glob.glob(os.path.join(folder, file_pattern))
Glob(t) ==
    /\ tpc[t] = "glob"
    /\ Continue(t, GlobFiles(Patterns[tpat[t]], fs))
    /\ UNCHANGED <<now, fs, running, cleanup_thread, nextThread, ttick, cpc,
                   cjoin, stopped, lastDeleted>>
    /\ UNCHANGED nonSweepVars

\* one iteration of "for file_path in files": try: getmtime, remove
\* except Exception: print.  A file that is gone raises and is passed over.
SweepFile(t) ==
    /\ tpc[t] = "files"
    /\ \E p \in tlist[t] :
         /\ Continue(t, tlist[t] \ {p})
         /\ IF p \in DOMAIN fs /\ Expired(fs[p], CutoffTime(ttick[t]))
              THEN /\ fs' = RemoveFile(fs, p)
                   /\ lastDeleted' =
                        [path |-> p, mtime |-> fs[p], tick |-> ttick[t],
                         afterStop |-> stopped]
              ELSE UNCHANGED <<fs, lastDeleted>>
    /\ UNCHANGED <<now, running, cleanup_thread, nextThread, ttick, cpc, cjoin,
                   stopped>>
    /\ UNCHANGED nonSweepVars

\* time.sleep(30) returns
Wake(t) ==
    /\ tpc[t] = "sleep"
    /\ now >= twake[t]
    /\ tpc' = [tpc EXCEPT ![t] = "check"]
    /\ twake' = [twake EXCEPT ![t] = 0]
    /\ UNCHANGED <<now, fs, running, cleanup_thread, nextThread, ttick, tpat,
                   tlist, cpc, cjoin, stopped, lastDeleted>>
    /\ UNCHANGED nonSweepVars

InitSweep ==
    /\ now = 0
    /\ fs = << >>
    /\ running = FALSE
    /\ cleanup_thread = NoThread
    /\ nextThread = 1
    /\ tpc = [t \in Threads |-> "unborn"]
    /\ ttick = [t \in Threads |-> 0]
    /\ tpat = [t \in Threads |-> 1]
    /\ tlist = [t \in Threads |-> {}]
    /\ twake = [t \in Threads |-> 0]
    /\ cpc = [c \in Callers |-> "idle"]
    /\ cjoin = [c \in Callers |-> NoThread]
    /\ stopped = FALSE
    /\ lastDeleted = NoDeletion

(***************************************************************************)
(* The generators: CardGenerator ("basic") and AdvancedCardGenerator       *)
(* ("advanced").  A template method is known by its name; an image by its  *)
(* size, the template method that drew it and the palette it was drawn in. *)
(***************************************************************************)
Kinds == {"basic", "advanced"}

CardWidth == 1050       \* self.card_width = 1050
CardHeight == 600       \* self.card_height = 600
HdScale == 2            \* self.card_width *= 2; self.card_height *= 2

NoneVal == "<None>"     \* Python's None as a field value
Absent == "<absent>"    \* a key the dict does not have

\* self.templates = {...}: template key -> the method the entry names
Templates(kind) ==
    IF kind = "basic"
      THEN [ modern |-> "modern_template", classic |-> "classic_template",
             creative |-> "creative_template", elegant |-> "elegant_template",
             tech |-> "tech_template", corporate |-> "corporate_template",
             artistic |-> "artistic_template", minimal |-> "minimal_template",
             bold |-> "bold_template", vintage |-> "vintage_template",
             geometric |-> "geometric_template",
             gradient |-> "gradient_template",
             executive |-> "executive_template" ]
      ELSE [ executive_premium |-> "executive_premium_template",
             modern_gradient |-> "modern_gradient_template",
             minimalist_pro |-> "minimalist_pro_template",
             creative_artistic |-> "creative_artistic_template",
             luxury_foil |-> "luxury_foil_template",
             tech_neon |-> "tech_neon_template",
             vintage_letterpress |-> "vintage_letterpress_template",
             geometric_modern |-> "geometric_modern_template",
             photography_showcase |-> "photography_showcase_template",
             corporate_elite |-> "corporate_elite_template",
             startup_dynamic |-> "startup_dynamic_template",
             healthcare_clean |-> "healthcare_clean_template",
             legal_traditional |-> "legal_traditional_template",
             real_estate_luxury |-> "real_estate_luxury_template",
             restaurant_elegant |-> "restaurant_elegant_template" ]

\* the template methods the class body defines (def ..._template)
DefinedMethods(kind) ==
    IF kind = "basic"
      THEN { "modern_template", "classic_template", "creative_template",
             "elegant_template", "tech_template", "corporate_template",
             "artistic_template", "minimal_template", "bold_template",
             "vintage_template", "geometric_template", "gradient_template",
             "executive_template" }
      ELSE { "executive_premium_template", "modern_gradient_template",
             "minimalist_pro_template" }

\* the slots of every palette of self.color_schemes
PaletteSlots(kind) ==
    IF kind = "basic"
      THEN {"primary", "secondary", "text", "accent", "light", "dark"}
      ELSE {"primary", "secondary", "accent", "text", "light", "dark",
            "metallic", "highlight"}

\* self.color_schemes = {...}: the palette keys
ColorSchemes(kind) ==
    IF kind = "basic"
      THEN { "corporate_blue", "executive_navy", "professional_gray",
             "modern_black", "elegant_burgundy", "sophisticated_green",
             "premium_gold", "royal_purple" }
      ELSE { "executive_navy", "luxury_gold", "tech_cyan", "creative_purple",
             "medical_blue", "finance_green", "law_burgundy",
             "startup_orange" }

\* card_data.get('template', <this>) and card_data.get('color_scheme', <this>)
TemplateArgDefault(kind) == IF kind = "basic" THEN "modern" ELSE "executive_premium"
SchemeArgDefault(kind) == IF kind = "basic" THEN "blue" ELSE "executive_navy"

\* the second argument of self.templates.get and of self.color_schemes.get
FallbackTemplate(kind) ==
    IF kind = "basic" THEN "modern_template" ELSE "executive_premium_template"
FallbackScheme(kind) == IF kind = "basic" THEN "corporate_blue" ELSE "executive_navy"

\* return self.classic_template(...) / self.creative_template(...)
Delegate(method) ==
    CASE method = "corporate_template" -> "classic_template"
      [] method = "artistic_template"  -> "creative_template"
      [] OTHER -> method

\* the colors[...] subscripts of each template method
TemplateSlots(method) ==
    CASE method \in {"modern_template", "classic_template"} ->
           {"accent", "light", "primary", "text"}
      [] method \in {"creative_template", "geometric_template"} ->
           {"accent", "primary", "secondary", "text"}
      [] method = "elegant_template" ->
           {"accent", "light", "primary", "secondary", "text"}
      [] method = "tech_template" -> {"accent", "light", "primary"}
      [] method = "minimal_template" -> {"accent", "primary", "text"}
      [] method = "bold_template" -> {"primary", "secondary", "text"}
      [] method = "vintage_template" -> {}
      [] method = "gradient_template" -> {"primary", "secondary"}
      [] method = "executive_template" -> {"accent", "dark", "primary", "text"}
      [] method = "executive_premium_template" ->
           {"accent", "dark", "light", "metallic", "primary", "secondary",
            "text"}
      [] method = "modern_gradient_template" ->
           {"accent", "light", "primary", "secondary"}
      [] method = "minimalist_pro_template" -> {"accent", "primary", "text"}
      [] OTHER -> {}

\* the methods that call .upper() on the name
UpperMethods ==
    {"modern_template", "tech_template", "executive_premium_template"}

\* the fields every template hands to draw.text without a test
DrawnFields == {"name", "job_title", "company"}

GetNone(data, key, default) ==
    IF key \in DOMAIN data THEN data[key] ELSE NoneVal

\* dict.get(key, default)
Get(data, key, default) == IF key \in DOMAIN data THEN data[key] ELSE default

\* what a render call gives: an exception, or an image with its canvas, the
\* template and palette that drew it, and the overlays pasted on it
Raised(exc, method, scheme) ==
    [exc |-> exc, template |-> method, scheme |-> scheme, width |-> 0,
     height |-> 0, logo |-> FALSE, qr |-> FALSE]
Image(w, h, method, scheme) ==
    [exc |-> "", template |-> method, scheme |-> scheme, width |-> w,
     height |-> h, logo |-> FALSE, qr |-> FALSE]
IsImage(r) == r.exc = ""

\* self.__init__: the registry's entries are evaluated one by one, and an
\* entry that names a method the class does not define raises
ConstructResult(kind) ==
    IF \A k \in DOMAIN Templates(kind) : Templates(kind)[k] \in DefinedMethods(kind)
      THEN "ok"
      ELSE "AttributeError"

\* Python's truth value of a field: None, False and '' are false
Truthy(v) == v \notin {Absent, NoneVal, "False", ""}

\* the premium templates that paste generate_advanced_qr's image themselves
QrTemplates == {"executive_premium_template", "minimalist_pro_template"}

\* template_func(card_data, colors) on a generator of the given canvas
CallTemplate(kind, method, w, h, data, scheme) ==
    IF method \notin DefinedMethods(kind)
      THEN Raised("AttributeError", method, scheme)
    ELSE IF ~(TemplateSlots(Delegate(method)) \subseteq PaletteSlots(kind))
      THEN Raised("KeyError", method, scheme)
    ELSE IF Get(data, "name", "") = NoneVal /\ Delegate(method) \in UpperMethods
      THEN Raised("AttributeError", method, scheme)
    ELSE IF \E f \in DrawnFields : Get(data, f, "") = NoneVal
      THEN Raised("TypeError", method, scheme)
    ELSE [Image(w, h, method, scheme) EXCEPT
            !.qr = method \in QrTemplates
                     /\ Truthy(Get(data, "include_qr", "False"))]

LookupNoDefault(registry, key, fallback) ==
    IF key \in registry THEN key ELSE "KeyError"

\* registry.get(key, fallback) over the registry's keys
Lookup(registry, key, fallback) ==
    IF key \in registry THEN key ELSE fallback

\* generate_card up to "Generate base card"
BaseCard(kind, w, h, data) ==
    LET template_name == Get(data, "template", TemplateArgDefault(kind))
        color_scheme == Get(data, "color_scheme", SchemeArgDefault(kind))
        colors == Lookup(ColorSchemes(kind), color_scheme, FallbackScheme(kind))
        tkey == Lookup(DOMAIN Templates(kind), template_name, "")
        template_func == IF tkey = "" THEN FallbackTemplate(kind)
                         ELSE Templates(kind)[tkey]
    IN  IF colors = "KeyError" \/ tkey = "KeyError"
          THEN Raised("KeyError", "", "")
          ELSE CallTemplate(kind, template_func, w, h, data, colors)

\* the logo files of the records: os.path.exists, and whether Image.open and
\* thumbnail read an image from the file
LogoMissing == "uploads/missing.png"
LogoCorrupt == "uploads/corrupt.png"
LogoGood == "uploads/logo.png"
PathExists(path) == path \in {LogoCorrupt, LogoGood}
Readable(path) == path = LogoGood

\* "Add logo if provided": the overlay is tried when the path is set and the
\* file exists, and an exception inside the try is printed and dropped
LogoOverlay(img, data) ==
    IF ~(Truthy(Get(data, "logo_path", NoneVal))
           /\ PathExists(data["logo_path"]))
      THEN img
    ELSE IF Readable(data["logo_path"]) THEN [img EXCEPT !.logo = TRUE]
    ELSE img

\* "Add QR code if requested" of CardGenerator.generate_card; the premium
\* generate_card has no such step
QrOverlay(kind, img, data) ==
    IF kind = "basic" /\ Truthy(Get(data, "include_qr", NoneVal))
      THEN [img EXCEPT !.qr = TRUE]
      ELSE img

\* generate_card: the base card, then the overlays
GenerateCard(kind, w, h, data) ==
    LET card_img == BaseCard(kind, w, h, data)
    IN  IF ~IsImage(card_img) THEN card_img
        ELSE QrOverlay(kind, LogoOverlay(card_img, data), data)

\* export_png_hd: the canvas doubled around generate_card, restored after
HdCard(kind, w, h, data) == GenerateCard(kind, w * HdScale, h * HdScale, data)

\* the arguments the render calls are tried on
TemplateArgs(kind) == DOMAIN Templates(kind) \cup {"no_such_template", Absent}
SchemeArgs(kind) == ColorSchemes(kind) \cup {"blue", "no_such_scheme", Absent}
NameArgs == {"Ann Lee", "", Absent, NoneVal}
LogoArgs == {Absent, LogoMissing, LogoCorrupt, LogoGood}
QrArgs == {Absent, "True", "False"}

\* a card_data dict: a key is left out where the argument is Absent
CardRecord(t, p, n, l, q) ==
    LET arg == [template |-> t, color_scheme |-> p, name |-> n,
                logo_path |-> l, include_qr |-> q]
    IN  [k \in {f \in DOMAIN arg : arg[f] # Absent} |-> arg[k]]

CardData(t, p, n) == CardRecord(t, p, n, Absent, Absent)

NoCall == [kind |-> "none"]

\* CardGenerator() / AdvancedCardGenerator().  Each behaviour constructs a
\* class once and makes one render call, on any of the arguments.
Construct(kind) ==
    /\ constructed[kind] = "untried"
    /\ constructed' = [constructed EXCEPT ![kind] = ConstructResult(kind)]
    /\ UNCHANGED <<card_width, card_height, rin, rout, qin, qout, exportVars>>
    /\ UNCHANGED <<webVars, lastError>>
    /\ UNCHANGED <<now, fs, running, cleanup_thread, nextThread, tpc, ttick,
                   tpat, tlist, twake, cpc, cjoin, stopped, lastDeleted>>

\* generator.generate_card(card_data)
Render(kind, t, p, n, l, q) ==
    /\ rin = NoCall
    /\ rin' = [kind |-> kind, hd |-> FALSE,
               data |-> CardRecord(t, p, n, l, q)]
    /\ rout' = GenerateCard(kind, card_width[kind], card_height[kind],
                            CardRecord(t, p, n, l, q))
    /\ UNCHANGED <<card_width, card_height, constructed, qin, qout,
                   exportVars>>
    /\ UNCHANGED <<webVars, lastError>>
    /\ UNCHANGED <<now, fs, running, cleanup_thread, nextThread, tpc, ttick,
                   tpat, tlist, twake, cpc, cjoin, stopped, lastDeleted>>

\* the card image export_png_hd renders (AdvancedCardGenerator only)
RenderHd(t, p, n, l, q) ==
    /\ rin = NoCall
    /\ rin' = [kind |-> "advanced", hd |-> TRUE,
               data |-> CardRecord(t, p, n, l, q)]
    /\ rout' = HdCard("advanced", card_width["advanced"],
                      card_height["advanced"], CardRecord(t, p, n, l, q))
    /\ UNCHANGED <<card_width, card_height, constructed, qin, qout,
                   exportVars>>
    /\ UNCHANGED <<webVars, lastError>>
    /\ UNCHANGED <<now, fs, running, cleanup_thread, nextThread, tpc, ttick,
                   tpat, tlist, twake, cpc, cjoin, stopped, lastDeleted>>

InitRender ==
    /\ card_width = [k \in Kinds |-> CardWidth]
    /\ card_height = [k \in Kinds |-> CardHeight]
    /\ constructed = [k \in Kinds |-> "untried"]
    /\ rin = NoCall
    /\ rout = NoCall
    /\ qin = NoCall
    /\ qout = <<>>



(***************************************************************************)
(* The QR payload.  Texts are sequences of characters; a property name or  *)
(* parameter of the vCard template is written as one token.                *)
(***************************************************************************)
Newline == "\n"

\* the values a contact field takes: plain, with a colon, with a line break
FieldTexts == { <<"a">>, <<"a", ":", "b">>, <<"a", Newline, "b">> }

QrFields ==
    {"name", "company", "job_title", "email", "phone", "website", "address",
     "notes"}

\* the lines of the f-string of generate_qr_code
VCardLines(data) ==
    << <<"BEGIN", ":", "VCARD">>,
       <<"VERSION", ":", "3.0">>,
       <<"FN", ":">> \o Get(data, "name", <<>>),
       <<"ORG", ":">> \o Get(data, "company", <<>>),
       <<"TITLE", ":">> \o Get(data, "job_title", <<>>),
       <<"EMAIL", ":">> \o Get(data, "email", <<>>),
       <<"TEL", ":">> \o Get(data, "phone", <<>>),
       <<"URL", ":">> \o Get(data, "website", <<>>),
       <<"ADR", ":", ";", ";">> \o Get(data, "address", <<>>)
         \o <<";", ";", ";", ";">>,
       <<"END", ":", "VCARD">> >>

\* the lines of the f-string of generate_advanced_qr; the N line holds the
\* repr of a list of the name's words
AdvancedVCardLines(data) ==
    << <<"BEGIN", ":", "VCARD">>,
       <<"VERSION", ":", "3.0">>,
       <<"FN", ":">> \o Get(data, "name", <<>>),
       <<"N", ":", "[words]">>,
       <<"ORG", ":">> \o Get(data, "company", <<>>),
       <<"TITLE", ":">> \o Get(data, "job_title", <<>>),
       <<"EMAIL", ";", "TYPE=WORK", ":">> \o Get(data, "email", <<>>),
       <<"TEL", ";", "TYPE=WORK,VOICE", ":">> \o Get(data, "phone", <<>>),
       <<"URL", ":">> \o Get(data, "website", <<>>),
       <<"ADR", ";", "TYPE=WORK", ":", ";", ";">>
         \o Get(data, "address", <<>>) \o <<";", ";", ";", ";">>,
       <<"NOTE", ":">> \o Get(data, "notes", <<>>),
       <<"END", ":", "VCARD">> >>

\* the text of a multi-line literal: its lines with a line break between
RECURSIVE JoinLines(_)
JoinLines(lines) ==
    IF Len(lines) = 0 THEN <<>>
    ELSE IF Len(lines) = 1 THEN lines[1]
    ELSE lines[1] \o <<Newline>> \o JoinLines(Tail(lines))

\* vcard = f"""...""", the text qr.add_data encodes
VCard(kind, data) ==
    JoinLines(IF kind = "basic" THEN VCardLines(data)
              ELSE AdvancedVCardLines(data))

\* generate_qr_code(card_data) / generate_advanced_qr(card_data)
GenerateQr(kind, data) ==
    /\ qin = NoCall
    /\ qin' = [kind |-> kind, data |-> data]
    /\ qout' = VCard(kind, data)
    /\ UNCHANGED <<card_width, card_height, constructed, rin, rout,
                   exportVars>>
    /\ UNCHANGED <<webVars, lastError>>
    /\ UNCHANGED <<now, fs, running, cleanup_thread, nextThread, tpc, ttick,
                   tpat, tlist, twake, cpc, cjoin, stopped, lastDeleted>>

(***************************************************************************)
(* Exports and batches.  Requests are handled one at a time.               *)
(***************************************************************************)
MaxCalls == 2           \* export and batch calls in one behaviour
MaxRows == 2            \* rows of one CSV file
MaxExportTime == 30     \* the clock advances up to here while exports run

NoPath == [dir |-> "none"]
NoRow == [name |-> "none"]

\* required_columns = ['name', 'job_title', 'company', 'email']
RequiredColumns == {"name", "job_title", "company", "email"}

\* csv_reader.fieldnames of the uploaded files
Headers ==
    { RequiredColumns \cup {"include_qr"}, RequiredColumns,
      RequiredColumns \ {"email"}, {"email", "include_qr"} }

\* request.form.get('export_format', 'png')
Formats == {"png", "pdf", "jpg"}

\* the cells of a row: a string, or None where the row is shorter than the
\* header (csv.DictReader's restval)
QrCells == {"TRUE", "yes", "no", NoneVal}

\* the name cells of the rows
RowNames == {"Ann Lee", "Ann_Lee", NoneVal}

\* the rows csv.DictReader yields under a header
RowsOf(hdr) ==
    { r \in [name : RowNames \cup {Absent}, include_qr : QrCells \cup {Absent}] :
        /\ r.name = Absent <=> "name" \notin hdr
        /\ r.include_qr = Absent <=> "include_qr" \notin hdr }

\* row.get(col, '')
RowGet(row, col) == IF row[col] = Absent THEN "" ELSE row[col]

\* str.lower() over the cells
Lower(s) ==
    CASE s = "TRUE" -> "true"
      [] s = "YES" -> "yes"
      [] OTHER -> s

\* row.get('include_qr', '').lower() in ['true', '1', 'yes'] of batch_export,
\* row.get('include_qr', '').lower() == 'true' of batch_export_premium
QrFlag(kind, cell) ==
    IF cell = NoneVal THEN "AttributeError"
    ELSE IF kind = "basic"
      THEN (IF Lower(cell) \in {"true", "1", "yes"} THEN "True" ELSE "False")
    ELSE (IF Lower(cell) = "true" THEN "True" ELSE "False")

\* card_data = {...} of a batch row; a header without job_title or company
\* gives them the default ''
RowCardData(kind, hdr, row) ==
    [k \in {"name", "job_title", "company", "include_qr"} |->
       CASE k = "name" -> RowGet(row, "name")
         [] k = "include_qr" -> QrFlag(kind, RowGet(row, "include_qr"))
         [] OTHER -> IF k \in hdr THEN "x" ELSE ""]

\* the card_data of a single export: session['card_data']
ExportData(n) == CardData(Absent, Absent, n)

\* what an export method leaves behind: the path it returns (NoPath when it
\* raises), the file system and the uuids drawn.  ok = FALSE is a failure
\* of the write of the output file.
Outcome(path, files, ctr) == [path |-> path, fs |-> files, ctr |-> ctr]

\* CardGenerator.export_png
ExportPng(data, ok, files, ctr, t, w, h) ==
    LET filepath == Path(ExportFolder, "business_card", ctr + 1, "png")
    IN  IF ~IsImage(GenerateCard("basic", w, h, data))
          THEN Outcome(NoPath, files, ctr)
        ELSE IF ~ok THEN Outcome(NoPath, files, ctr + 1)
        ELSE Outcome(filepath, WriteFile(files, filepath, t), ctr + 1)

\* CardGenerator.export_pdf: the temp image is removed after c.save()
ExportPdf(data, ok, files, ctr, t, w, h) ==
    LET filepath == Path(ExportFolder, "business_card", ctr + 1, "pdf")
        temp_img_path == Path(ExportFolder, "temp", ctr + 2, "png")
    IN  IF ~IsImage(GenerateCard("basic", w, h, data))
          THEN Outcome(NoPath, files, ctr + 1)
        ELSE IF ~ok
          THEN Outcome(NoPath, WriteFile(files, temp_img_path, t), ctr + 2)
        ELSE Outcome(filepath,
                     RemoveFile(WriteFile(WriteFile(files, temp_img_path, t),
                                          filepath, t), temp_img_path),
                     ctr + 2)

\* CardGenerator.export_html: the page and the image it embeds
ExportHtml(data, ok, files, ctr, t, w, h) ==
    LET filepath == Path(ExportFolder, "business_card", ctr + 1, "html")
        img_filepath == Path(ExportFolder, "card", ctr + 2, "png")
    IN  IF ~IsImage(GenerateCard("basic", w, h, data))
          THEN Outcome(NoPath, files, ctr + 1)
        ELSE IF ~ok
          THEN Outcome(NoPath, WriteFile(files, img_filepath, t), ctr + 2)
        ELSE Outcome(filepath,
                     WriteFile(WriteFile(files, img_filepath, t), filepath, t),
                     ctr + 2)

\* AdvancedCardGenerator.export_premium_pdf
ExportPremiumPdf(data, ok, files, ctr, t, w, h) ==
    LET filepath == Path(ExportFolder, "business_card_premium", ctr + 1, "pdf")
    IN  IF ~IsImage(GenerateCard("advanced", w, h, data)) \/ ~ok
          THEN Outcome(NoPath, files, ctr + 1)
          ELSE Outcome(filepath, WriteFile(files, filepath, t), ctr + 1)

\* AdvancedCardGenerator.export_png_hd
ExportPngHd(data, ok, files, ctr, t, w, h) ==
    LET filepath == Path(ExportFolder, "business_card_hd", ctr + 1, "png")
    IN  IF ~IsImage(HdCard("advanced", w, h, data)) \/ ~ok
          THEN Outcome(NoPath, files, ctr + 1)
          ELSE Outcome(filepath, WriteFile(files, filepath, t), ctr + 1)

\* the export calls; export_premium_pdf_print_ready is
\* export_premium_pdf(card_data, print_ready=True)
ExportMethods ==
    {"export_png", "export_pdf", "export_pdf_print", "export_html",
     "export_premium_pdf", "export_premium_pdf_print_ready", "export_png_hd"}

KindOf(method) ==
    IF method \in {"export_premium_pdf", "export_premium_pdf_print_ready",
                   "export_png_hd"}
      THEN "advanced"
      ELSE "basic"

PointsPerInch == 72     \* reportlab.lib.units.inch
Dpi == 300              \* "assuming 300 DPI"
LetterWidth == 612      \* reportlab.lib.pagesizes.letter
LetterHeight == 792

\* num/den inches in points
Inches(num, den) == (num * PointsPerInch) \div den

PdfMethods ==
    {"export_pdf", "export_pdf_print", "export_premium_pdf",
     "export_premium_pdf_print_ready"}

NoPdf == [method |-> "none"]

\* the page of the PDF and the image placed on it, in points: Canvas(filepath,
\* pagesize=letter) with the card centred in export_pdf; SimpleDocTemplate
\* with pagesize and margins by print_ready, and RLImage of 3.5in by 2in, in
\* export_premium_pdf
PdfLayout(method, w, h) ==
    CASE method \in {"export_pdf", "export_pdf_print"} ->
           [method |-> method, print |-> method = "export_pdf_print",
            page_width |-> LetterWidth, page_height |-> LetterHeight,
            image_width |-> (w * PointsPerInch) \div Dpi,
            image_height |-> (h * PointsPerInch) \div Dpi,
            margin |-> 0]
      [] method = "export_premium_pdf_print_ready" ->
           [method |-> method, print |-> TRUE,
            page_width |-> Inches(4, 1), page_height |-> Inches(25, 10),
            image_width |-> Inches(35, 10), image_height |-> Inches(2, 1),
            margin |-> Inches(25, 100)]
      [] method = "export_premium_pdf" ->
           [method |-> method, print |-> FALSE,
            page_width |-> Inches(35, 10), page_height |-> Inches(2, 1),
            image_width |-> Inches(35, 10), image_height |-> Inches(2, 1),
            margin |-> 0]

\* the layout an export leaves: that of the PDF it wrote, if it wrote one
PdfOf(method, path, w, h) ==
    IF path # NoPath /\ method \in PdfMethods THEN PdfLayout(method, w, h)
    ELSE NoPdf

\* generator.<method>(card_data); export_pdf_print returns export_pdf's result
CallExport(method, data, ok, files, ctr, t, w, h) ==
    CASE method = "export_png" -> ExportPng(data, ok, files, ctr, t, w, h)
      [] method \in {"export_pdf", "export_pdf_print"} ->
           ExportPdf(data, ok, files, ctr, t, w, h)
      [] method = "export_html" -> ExportHtml(data, ok, files, ctr, t, w, h)
      [] method \in {"export_premium_pdf", "export_premium_pdf_print_ready"} ->
           ExportPremiumPdf(data, ok, files, ctr, t, w, h)
      [] method = "export_png_hd" -> ExportPngHd(data, ok, files, ctr, t, w, h)

BatchRequest(route, kind, hdr, fmt) ==
    [route |-> route, kind |-> kind, header |-> hdr, format |-> fmt]
NoBatch == BatchRequest("none", "none", {}, "")

\* what a batch route answers: send_file(zip_path), or a flashed error
Response(status, missing, path) ==
    [status |-> status, missing |-> missing, path |-> path]
NoResponse == Response("none", {}, NoPath)

\* the characters of the strings that are formatted into file names
Chars(s) ==
    CASE s = "Ann Lee" -> <<"A", "n", "n", " ", "L", "e", "e">>
      [] s = "Ann_Lee" -> <<"A", "n", "n", "_", "L", "e", "e">>
      [] s = "A/B" -> <<"A", "/", "B">>
      [] s = "png" -> <<"p", "n", "g">>
      [] s = "pdf" -> <<"p", "d", "f">>
      [] s = "jpg" -> <<"j", "p", "g">>
      [] s = "card_" -> <<"c", "a", "r", "d", "_">>
      [] OTHER -> <<>>

\* str.replace(old, new) for one-character old and new
Replace(chars, old, new) ==
    [k \in DOMAIN chars |-> IF chars[k] = old THEN new ELSE chars[k]]

\* name.replace(' ', '_') over the names of the rows
Underscored(name) == Replace(Chars(name), " ", "_")

\* card_data['name'].replace(' ', '_').replace('/', '_')
SafeName(name) == Replace(Replace(Chars(name), " ", "_"), "/", "_")

DigitChar(d) == <<"0", "1", "2", "3", "4", "5", "6", "7", "8", "9">>[d + 1]

\* f"{n}": the decimal digits of a natural number
RECURSIVE Decimal(_)
Decimal(n) ==
    IF n < 10 THEN <<DigitChar(n)>>
    ELSE Decimal(n \div 10) \o <<DigitChar(n % 10)>>

\* f"{n:03d}": the decimal digits, zero-padded on the left to three
Padded3(n) ==
    LET ds == Decimal(n)
    IN  IF Len(ds) >= 3 THEN ds
        ELSE [k \in 1..(3 - Len(ds)) |-> "0"] \o ds

ArcNameNoIndex(kind, index, name, ext) ==
    [kind |-> kind, index |-> index,
     text |-> IF kind = "basic"
                THEN Chars("card_") \o Underscored(name) \o <<".">> \o Chars(ext)
                ELSE SafeName(name) \o <<".">> \o Chars(ext)]

\* arcname = f"card_{i+1}_{name.replace(' ', '_')}.png" (or .pdf) of
\* batch_export; zip_filename = f"{safe_name}_{i+1:03d}.{export_format}" of
\* batch_export_premium.  index is i + 1.
ArcName(kind, index, name, ext) ==
    [kind |-> kind, index |-> index,
     text |-> IF kind = "basic"
                THEN Chars("card_") \o Decimal(index) \o <<"_">>
                       \o Underscored(name) \o <<".">> \o Chars(ext)
                ELSE SafeName(name) \o <<"_">> \o Padded3(index) \o <<".">>
                       \o Chars(ext)]

ArchiveNothing(entries, e) == entries

\* zipf.write(file_path, arcname)
ZipWrite(entries, e) == Append(entries, e)

KeepFile(files, p) == files

\* os.remove(file_path)
OsRemove(files, p) == RemoveFile(files, p)

\* f"business_cards_{datetime.now().strftime('%Y%m%d_%H%M%S')}.zip": the
\* clock counts whole seconds
TimestampZip(t) == Path(ExportFolder, "business_cards", t, "zip")

\* f"premium_business_cards_{unique_id}.zip"
UuidZip(ctr) == Path(ExportFolder, "premium_business_cards", ctr + 1, "zip")

\* the method a batch exports a row with; "" is the branch "else: continue"
RowMethod(kind, fmt) ==
    IF kind = "basic"
      THEN (IF fmt = "png" THEN "export_png"
            ELSE IF fmt = "pdf" THEN "export_pdf" ELSE "")
      ELSE (IF fmt = "pdf" THEN "export_premium_pdf" ELSE "export_png_hd")

\* self.card_width *= 2; self.card_height *= 2
DoubledCanvas(size) == size * HdScale

KeepCanvas(original, current) == current

\* finally: self.card_width, self.card_height = original_width, original_height
RestoredCanvas(original, current) == original

\* the export methods that run in one step; export_png_hd runs in two
AtomicExports == ExportMethods \ {"export_png_hd"}

sweeperIdle == <<now, running, cleanup_thread, nextThread, tpc, ttick, tpat,
                 tlist, twake, cpc, cjoin, stopped, lastDeleted, lastError>>

\* no row has been read
NoRows ==
    /\ bi' = 0
    /\ brow' = NoRow
    /\ bfile' = NoPath
    /\ bentries' = <<>>
    /\ boutcomes' = <<>>

\* export_card of routes.py, and the export methods of the premium class
Export(method, n, ok) ==
    /\ epc = "idle"
    /\ calls < MaxCalls
    /\ calls' = calls + 1
    /\ LET o == CallExport(method, ExportData(n), ok, fs, uuidCtr, now,
                           card_width[KindOf(method)],
                           card_height[KindOf(method)])
       IN  /\ fs' = o.fs
           /\ uuidCtr' = o.ctr
           /\ returned' = IF o.path = NoPath THEN returned
                          ELSE Append(returned,
                                      [call |-> method, path |-> o.path])
           /\ pdf' = PdfOf(method, o.path, card_width[KindOf(method)],
                           card_height[KindOf(method)])
    /\ breq' = NoBatch
    /\ resp' = NoResponse
    /\ bzip' = NoPath
    /\ NoRows
    /\ UNCHANGED <<epc, renderVars, sweeperIdle, hdcall>>
    /\ UNCHANGED webVars

\* export_png_hd up to its try: the file name is drawn, the canvas is saved
\* in original_width, original_height and doubled
ExportHdBegin(n) ==
    /\ epc = "idle"
    /\ calls < MaxCalls
    /\ calls' = calls + 1
    /\ epc' = "hd"
    /\ uuidCtr' = uuidCtr + 1
    /\ hdcall' = [data |-> ExportData(n),
                  filepath |-> Path(ExportFolder, "business_card_hd",
                                    uuidCtr + 1, "png"),
                  original_width |-> card_width["advanced"],
                  original_height |-> card_height["advanced"]]
    /\ card_width' = [card_width EXCEPT !["advanced"] = DoubledCanvas(@)]
    /\ card_height' = [card_height EXCEPT !["advanced"] = DoubledCanvas(@)]
    /\ breq' = NoBatch
    /\ resp' = NoResponse
    /\ bzip' = NoPath
    /\ pdf' = NoPdf
    /\ NoRows
    /\ UNCHANGED <<fs, returned, constructed, rin, rout, qin, qout,
                   sweeperIdle>>
    /\ UNCHANGED webVars

\* the try and the finally of export_png_hd: the card is rendered on the
\* doubled canvas and saved, the canvas is restored whether or not that
\* raised, and the path is returned if it did not
ExportHdEnd(ok) ==
    /\ epc = "hd"
    /\ epc' = "idle"
    /\ LET card_img == GenerateCard("advanced", card_width["advanced"],
                                    card_height["advanced"], hdcall.data)
       IN  IF IsImage(card_img) /\ ok
             THEN /\ fs' = WriteFile(fs, hdcall.filepath, now)
                  /\ returned' = Append(returned,
                                        [call |-> "export_png_hd",
                                         path |-> hdcall.filepath])
             ELSE UNCHANGED <<fs, returned>>
    /\ card_width' = [card_width EXCEPT !["advanced"] =
                        RestoredCanvas(hdcall.original_width, @)]
    /\ card_height' = [card_height EXCEPT !["advanced"] =
                         RestoredCanvas(hdcall.original_height, @)]
    /\ hdcall' = NoCall
    /\ UNCHANGED <<uuidCtr, calls, breq, resp, bzip, bi, brow, bfile, bentries,
                   boutcomes, pdf, constructed, rin, rout, qin, qout,
                   sweeperIdle>>
    /\ UNCHANGED webVars

\* batch_process of routes.py up to the loop of batch_export: the reader is
\* handed over as it is, and ZipFile(zip_filepath, 'w') creates the archive
RoutesBatchProcess(hdr, fmt) ==
    /\ epc = "idle"
    /\ calls < MaxCalls
    /\ calls' = calls + 1
    /\ breq' = BatchRequest("routes", "basic", hdr, fmt)
    /\ pdf' = NoPdf
    /\ NoRows
    /\ IF ConstructResult("basic") = "ok"
         THEN /\ bzip' = TimestampZip(now)
              /\ fs' = WriteFile(fs, TimestampZip(now), now)
              /\ epc' = "row"
              /\ resp' = NoResponse
         ELSE /\ bzip' = NoPath
              /\ resp' = Response("error", {}, NoPath)
              /\ UNCHANGED <<fs, epc>>
    /\ UNCHANGED <<uuidCtr, returned, renderVars, sweeperIdle, hdcall>>
    /\ UNCHANGED webVars

\* batch_process of new_routes.py: the header is validated, then the premium
\* generator is constructed and batch_export_premium is entered
NewRoutesBatchProcess(hdr, fmt) ==
    /\ epc = "idle"
    /\ calls < MaxCalls
    /\ calls' = calls + 1
    /\ breq' = BatchRequest("new_routes", "advanced", hdr, fmt)
    /\ pdf' = NoPdf
    /\ NoRows
    /\ LET missing_columns == RequiredColumns \ hdr
       IN  IF missing_columns # {}
             THEN /\ resp' = Response("rejected", missing_columns, NoPath)
                  /\ bzip' = NoPath
                  /\ UNCHANGED <<fs, epc, uuidCtr>>
           ELSE IF ConstructResult("advanced") # "ok"
             THEN /\ resp' = Response("error", {}, NoPath)
                  /\ bzip' = NoPath
                  /\ UNCHANGED <<fs, epc, uuidCtr>>
           ELSE /\ resp' = NoResponse
                /\ bzip' = UuidZip(uuidCtr)
                /\ uuidCtr' = uuidCtr + 1
                /\ fs' = WriteFile(fs, UuidZip(uuidCtr), now)
                /\ epc' = "row"
    /\ UNCHANGED <<returned, renderVars, sweeperIdle, hdcall>>
    /\ UNCHANGED webVars

\* batch_export_premium(csv_data, export_format) up to its loop, on a
\* generator that carries the fields __init__ assigns
BatchExportPremium(hdr, fmt) ==
    /\ epc = "idle"
    /\ calls < MaxCalls
    /\ calls' = calls + 1
    /\ breq' = BatchRequest("direct", "advanced", hdr, fmt)
    /\ pdf' = NoPdf
    /\ resp' = NoResponse
    /\ NoRows
    /\ bzip' = UuidZip(uuidCtr)
    /\ uuidCtr' = uuidCtr + 1
    /\ fs' = WriteFile(fs, UuidZip(uuidCtr), now)
    /\ epc' = "row"
    /\ UNCHANGED <<returned, renderVars, sweeperIdle, hdcall>>
    /\ UNCHANGED webVars

\* one turn of "for i, row in enumerate(csv_data)" up to zipf.write: the
\* record is built and the row is exported
BatchRow(row, ok) ==
    /\ epc = "row"
    /\ bi < MaxRows
    /\ row \in RowsOf(breq.header)
    /\ bi' = bi + 1
    /\ LET kind == breq.kind
           flag == QrFlag(kind, RowGet(row, "include_qr"))
           method == RowMethod(kind, breq.format)
           o == CallExport(method, RowCardData(kind, breq.header, row), ok,
                           fs, uuidCtr, now, card_width[kind],
                           card_height[kind])
       IN  IF flag = "AttributeError" /\ kind = "basic"
             \* raised outside the try: the batch call ends with the error
             THEN /\ boutcomes' = Append(boutcomes, "aborted")
                  /\ epc' = "idle"
                  /\ resp' = Response("error", {}, NoPath)
                  /\ UNCHANGED <<fs, uuidCtr, brow, bfile, pdf>>
           ELSE IF flag = "AttributeError"
             THEN /\ boutcomes' = Append(boutcomes, "raised")
                  /\ UNCHANGED <<fs, uuidCtr, brow, bfile, epc, resp, pdf>>
           ELSE IF method = ""
             THEN /\ boutcomes' = Append(boutcomes, "unsupported")
                  /\ UNCHANGED <<fs, uuidCtr, brow, bfile, epc, resp, pdf>>
           ELSE IF o.path = NoPath
             THEN /\ boutcomes' = Append(boutcomes, "raised")
                  /\ fs' = o.fs
                  /\ uuidCtr' = o.ctr
                  /\ UNCHANGED <<brow, bfile, epc, resp, pdf>>
           ELSE /\ fs' = o.fs
                /\ uuidCtr' = o.ctr
                /\ pdf' = IF method \in PdfMethods
                            THEN PdfLayout(method, card_width[kind],
                                           card_height[kind])
                            ELSE pdf
                /\ brow' = row
                /\ bfile' = o.path
                /\ epc' = "archive"
                /\ boutcomes' = Append(boutcomes, "exported")
                /\ UNCHANGED resp
    /\ LET kind == breq.kind
           hd == /\ RowMethod(kind, breq.format) = "export_png_hd"
                 /\ QrFlag(kind, RowGet(row, "include_qr")) # "AttributeError"
       IN  \* export_png_hd doubles the canvas and restores it in its finally
           /\ card_width' =
                [card_width EXCEPT ![kind] =
                   IF hd THEN RestoredCanvas(@, DoubledCanvas(@)) ELSE @]
           /\ card_height' =
                [card_height EXCEPT ![kind] =
                   IF hd THEN RestoredCanvas(@, DoubledCanvas(@)) ELSE @]
    /\ UNCHANGED <<calls, returned, breq, bzip, bentries, constructed, rin,
                   rout, qin, qout, sweeperIdle, hdcall>>
    /\ UNCHANGED webVars

\* zipf.write(file_path, arcname); os.remove(file_path)
BatchArchive ==
    /\ epc = "archive"
    /\ bentries' = ZipWrite(bentries,
                            [arcname |-> ArcName(breq.kind, bi,
                                                 RowGet(brow, "name"),
                                                 breq.format),
                             row |-> bi, file |-> bfile,
                             cell |-> brow.include_qr,
                             qr |-> GenerateCard(
                                      breq.kind, card_width[breq.kind],
                                      card_height[breq.kind],
                                      RowCardData(breq.kind, breq.header,
                                                  brow)).qr])
    /\ fs' = OsRemove(fs, bfile)
    /\ brow' = NoRow
    /\ bfile' = NoPath
    /\ epc' = "row"
    /\ UNCHANGED <<uuidCtr, calls, returned, breq, resp, bzip, bi, boutcomes,
                   pdf, renderVars, sweeperIdle, hdcall>>
    /\ UNCHANGED webVars

\* csv_data is exhausted: return zip_filepath / return zip_path, which the
\* route sends
BatchReturn ==
    /\ epc = "row"
    /\ epc' = "idle"
    /\ returned' = Append(returned,
                          [call |-> IF breq.kind = "basic" THEN "batch_export"
                                    ELSE "batch_export_premium",
                           path |-> bzip])
    /\ resp' = Response("sent", {}, bzip)
    /\ UNCHANGED <<fs, uuidCtr, calls, breq, bzip, bi, brow, bfile, bentries,
                   boutcomes, pdf, renderVars, sweeperIdle, hdcall>>
    /\ UNCHANGED webVars

InitExport ==
    /\ uuidCtr = 0
    /\ calls = 0
    /\ returned = <<>>
    /\ epc = "idle"
    /\ breq = NoBatch
    /\ resp = NoResponse
    /\ bzip = NoPath
    /\ bi = 0
    /\ brow = NoRow
    /\ bfile = NoPath
    /\ bentries = <<>>
    /\ boutcomes = <<>>
    /\ pdf = NoPdf
    /\ hdcall = NoCall

(***************************************************************************)
(* save_card_data of routes.py and of new_routes.py.  A form value is the  *)
(* sequence of its characters; a value kept in the session is an int or a  *)
(* str.                                                                    *)
(***************************************************************************)
Sessions == {"s1", "s2"}
MaxSubmits == 2         \* save_card_data requests of one behaviour

IntVal(n) == [type |-> "int", int |-> n, str |-> <<>>]
StrVal(cs) == [type |-> "str", int |-> 0, str |-> cs]

\* numeric_fields = ['name_size', 'title_size', 'company_size', 'contact_size']
NumericFields == {"name_size", "title_size", "company_size", "contact_size"}

\* the text fields of form_fields, all copied alike: one stands for them
TextFields == {"name"}

\* the defaults of the except branch
SizeDefaults ==
    [name_size |-> 72, title_size |-> 32, company_size |-> 28,
     contact_size |-> 24]

DecimalDigits == {DigitChar(d) : d \in 0..9}
DigitValue(c) == CHOOSE d \in 0..9 : DigitChar(d) = c

\* str.strip() as int() applies it to its argument
RECURSIVE Strip(_)
Strip(cs) ==
    IF cs = <<>> THEN cs
    ELSE IF Head(cs) = " " THEN Strip(Tail(cs))
    ELSE IF cs[Len(cs)] = " " THEN Strip(SubSeq(cs, 1, Len(cs) - 1))
    ELSE cs

RECURSIVE DigitsValue(_)
DigitsValue(cs) ==
    IF cs = <<>> THEN 0
    ELSE DigitsValue(SubSeq(cs, 1, Len(cs) - 1)) * 10 + DigitValue(cs[Len(cs)])

\* int(v): an int is returned as it is; a str is stripped and read as an
\* optional sign and decimal digits, anything else is a ValueError
PyInt(v) ==
    IF v.type = "int" THEN [ok |-> TRUE, val |-> v.int]
    ELSE LET t == Strip(v.str)
             signed == t # <<>> /\ t[1] \in {"-", "+"}
             body == IF signed THEN Tail(t) ELSE t
         IN  IF body # <<>> /\ \A k \in 1..Len(body) : body[k] \in DecimalDigits
               THEN [ok |-> TRUE,
                     val |-> IF signed /\ t[1] = "-" THEN 0 - DigitsValue(body)
                             ELSE DigitsValue(body)]
               ELSE [ok |-> FALSE, val |-> 0]

\* request.form.get(key, default)
FormGet(form, key, default) ==
    IF key \in DOMAIN form THEN StrVal(form[key]) ELSE default

\* what the size inputs of a submitted form may hold
SizeTexts ==
    { <<"4", "8">>, <<" ", "4", "0">>, <<>>, <<"a", "b", "c">>,
      <<"1", "2", ".", "5">> }

NoForm == [f \in {} |-> <<>>]

\* request.form of the submissions: every size input holding the same text,
\* no input at all, and a form of mixed inputs with the QR box ticked
Forms ==
    { [f \in NumericFields \cup TextFields |-> x] : x \in SizeTexts }
      \cup { NoForm,
             [name_size |-> <<"4", "8">>, title_size |-> <<"a", "b", "c">>,
              name |-> <<"A", "n", "n">>, include_qr |-> <<"o", "n">>] }

\* the first loop over form_fields: int(request.form.get(field, 0)), the
\* default of the field on ValueError or TypeError; request.form.get(field, '')
\* for the other fields
ParsedFields(form) ==
    [f \in NumericFields \cup TextFields |->
       IF f \in NumericFields
         THEN LET r == PyInt(FormGet(form, f, IntVal(0)))
              IN  IF r.ok THEN IntVal(r.val) ELSE IntVal(SizeDefaults[f])
         ELSE FormGet(form, f, StrVal(<<>>))]

\* the second loop over form_fields:
\* session['card_data'][field] = request.form.get(field, '')
RawFields(form) ==
    [f \in NumericFields \cup TextFields |-> FormGet(form, f, StrVal(<<>>))]

\* the loop of routes.py, whose field list has no size field
RoutesFields(form) == [f \in TextFields |-> FormGet(form, f, StrVal(<<>>))]

\* session['card_data']['include_qr'] = 'include_qr' in request.form
QrField(form) == [include_qr |-> "include_qr" \in DOMAIN form]

\* assignments to the keys of a dict: the later value of a key stays
Update(data, new) ==
    [k \in DOMAIN data \cup DOMAIN new |->
       IF k \in DOMAIN new THEN new[k] ELSE data[k]]

\* ALLOWED_EXTENSIONS of each module
AllowedExtensions(route) ==
    IF route = "routes" THEN {"png", "jpg", "jpeg", "gif", "svg"}
    ELSE {"png", "jpg", "jpeg", "gif", "svg", "webp"}

\* request.files['logo']: the name the client gave it, as directory part,
\* stem and extension, and whether its bytes are an image PIL can verify
NoFile == [stem |-> "none"]
ClientFiles ==
    [dirs : {"", "../"}, stem : {"logo"}, ext : {"png", "txt"},
     image : BOOLEAN]

\* allowed_file(file.filename)
AllowedFile(route, file) == Lower(file.ext) \in AllowedExtensions(route)

\* secure_filename(file.filename): the directory part is dropped
SecureFilename(file) == [stem |-> file.stem, ext |-> file.ext]

\* the file name carries no timestamp
NoStamp == 0 - 1

\* os.path.join(UPLOAD_FOLDER, filename) of routes.py;
\* os.path.join(UPLOAD_FOLDER, f"{int(time.time())}_{filename}") of new_routes.py
UploadPath(route, file, t) ==
    Path(UploadFolder, SecureFilename(file).stem,
         IF route = "routes" THEN NoStamp ELSE t, SecureFilename(file).ext)

Routes == {"routes", "new_routes"}

InvalidImage == "Invalid image file"

\* 'logo' in request.files and file and file.filename and allowed_file(...)
TakesLogo(route, file) == file # NoFile /\ AllowedFile(route, file)

\* with Image.open(filepath) as img: img.verify() of new_routes.py; routes.py
\* stores the path without opening the file
Verified(route, file) == route = "routes" \/ file.image

\* save_card_data: the session fields, then the logo
SaveCardData(route, s, form, file) ==
    /\ Len(submitted) < MaxSubmits
    /\ LET fields == IF route = "routes" THEN RoutesFields(form)
                     ELSE Update(ParsedFields(form), RawFields(form))
           card_data == Update(Update(session[s], fields), QrField(form))
           filepath == UploadPath(route, file, now)
       IN  /\ submitted' =
                Append(submitted,
                       [route |-> route, session |-> s, form |-> form,
                        file |-> file,
                        path |-> IF TakesLogo(route, file) THEN filepath
                                 ELSE NoPath])
           /\ IF TakesLogo(route, file) /\ Verified(route, file)
                THEN /\ fs' = WriteFile(fs, filepath, now)
                     /\ uploaded' = WriteFile(uploaded, filepath,
                                              [image |-> file.image, by |-> s])
                     /\ session' = [session EXCEPT ![s] =
                                      Update(card_data,
                                             [logo_path |-> filepath])]
                     /\ UNCHANGED flashed
              ELSE IF TakesLogo(route, file)
                THEN /\ fs' = RemoveFile(fs, filepath)
                     /\ uploaded' = RemoveFile(uploaded, filepath)
                     /\ session' = [session EXCEPT ![s] = card_data]
                     /\ flashed' = [flashed EXCEPT ![s] = @ \cup {InvalidImage}]
              ELSE /\ session' = [session EXCEPT ![s] = card_data]
                   /\ UNCHANGED <<fs, uploaded, flashed>>
    /\ UNCHANGED <<serving, renderVars, exportVars, sweeperIdle>>

(***************************************************************************)
(* The routes that hand a written file to the client.                      *)
(***************************************************************************)
\* the <format> of /export/<format> in routes.py; any other is refused
RouteFormats == {"png", "pdf", "pdf_print", "html"}

\* the branch of export_card a format takes
FormatMethod(format) ==
    CASE format = "png" -> "export_png"
      [] format = "pdf" -> "export_pdf"
      [] format = "pdf_print" -> "export_pdf_print"
      [] format = "html" -> "export_html"

\* export_card of routes.py up to its return: the export method writes the
\* file and send_file(file_path) starts a response that streams it; an
\* exception of the export is flashed and no file is sent
ExportCard(format, n, ok) ==
    /\ epc = "idle"
    /\ calls < MaxCalls
    /\ calls' = calls + 1
    /\ LET method == FormatMethod(format)
           o == CallExport(method, ExportData(n), ok, fs, uuidCtr, now,
                           card_width["basic"], card_height["basic"])
       IN  /\ fs' = o.fs
           /\ uuidCtr' = o.ctr
           /\ returned' = IF o.path = NoPath THEN returned
                          ELSE Append(returned,
                                      [call |-> method, path |-> o.path])
           /\ pdf' = PdfOf(method, o.path, card_width["basic"],
                           card_height["basic"])
           /\ serving' = IF o.path = NoPath THEN serving
                         ELSE serving \cup {o.path}
    /\ breq' = NoBatch
    /\ resp' = NoResponse
    /\ bzip' = NoPath
    /\ NoRows
    /\ UNCHANGED <<epc, renderVars, sweeperIdle, hdcall>>
    /\ UNCHANGED <<session, flashed, uploaded, submitted>>

\* the response of send_file has been streamed to its end
ServeEnd(p) ==
    /\ p \in serving
    /\ serving' = serving \ {p}
    /\ UNCHANGED <<sweepVars, renderVars, exportVars, lastError>>
    /\ UNCHANGED <<session, flashed, uploaded, submitted>>

\* generate_preview_card of either class, called by the preview routes: the
\* card is rendered and saved as static/previews/preview_<uuid>.png
GeneratePreviewCard(kind, n, ok) ==
    /\ epc = "idle"
    /\ calls < MaxCalls
    /\ calls' = calls + 1
    /\ IF IsImage(GenerateCard(kind, card_width[kind], card_height[kind],
                               ExportData(n)))
         THEN /\ uuidCtr' = uuidCtr + 1
              /\ IF ok
                   THEN fs' = WriteFile(fs, Path(PreviewFolder, "preview",
                                                 uuidCtr + 1, "png"), now)
                   ELSE UNCHANGED fs
         ELSE UNCHANGED <<uuidCtr, fs>>
    /\ UNCHANGED <<returned, epc, breq, resp, bzip, bi, brow, bfile, bentries,
                   boutcomes, pdf, hdcall>>
    /\ UNCHANGED <<renderVars, sweeperIdle, webVars>>

(***************************************************************************)
(* A sweep that meets an exception, and files in other places.             *)
(***************************************************************************)
\* the directories _cleanup_old_files globs
SweptFolders == {ExportFolder, PreviewFolder}

\* a subdirectory of the export folder
ExportSubfolder == "exports/archive"

\* files outside the two directories: in a subdirectory of one of them
OutsidePaths == { Path(ExportSubfolder, "business_card", 1, "png") }

AbortSweep(t, list) ==
    /\ tpc' = [tpc EXCEPT ![t] = "sleep"]
    /\ tlist' = [tlist EXCEPT ![t] = {}]
    /\ tpat' = [tpat EXCEPT ![t] = 1]
    /\ twake' = [twake EXCEPT ![t] = now + SleepSeconds]

\* what "try: ... except Exception: print(...)" inside the for loop goes on
\* to: the next file of the list
AfterError(t, list) == Continue(t, list)

\* one iteration of "for file_path in files" in which os.path.getmtime or
\* os.remove raises: the file is gone (FileNotFoundError), or it is there and
\* the call is refused (PermissionError).  The except clause prints and the
\* file, if there, stays.
SweepFileError(t) ==
    /\ tpc[t] = "files"
    /\ \E p \in tlist[t] :
         /\ AfterError(t, tlist[t] \ {p})
         /\ lastError' = [path |-> p, thread |-> t, tick |-> ttick[t],
                          gone |-> p \notin DOMAIN fs,
                          deleted |-> lastDeleted]
    /\ UNCHANGED <<now, fs, running, cleanup_thread, nextThread, ttick, cpc,
                   cjoin, stopped, lastDeleted>>
    /\ UNCHANGED <<renderVars, exportVars, webVars>>

\* some other program or user removes a file of the directories
ForeignRemove(p) ==
    /\ p \in DOMAIN fs
    /\ fs' = RemoveFile(fs, p)
    /\ UNCHANGED <<now, running, cleanup_thread, nextThread, tpc, ttick, tpat,
                   tlist, twake, cpc, cjoin, stopped, lastDeleted>>
    /\ UNCHANGED nonSweepVars

InitWeb ==
    /\ session = [s \in Sessions |-> NoForm]
    /\ flashed = [s \in Sessions |-> {}]
    /\ uploaded = << >>
    /\ submitted = <<>>
    /\ serving = {}
    /\ lastError = NoDeletion

Init == InitSweep /\ InitRender /\ InitExport /\ InitWeb

NextRender ==
    \/ \E k \in Kinds : Construct(k)
    \/ /\ rin = NoCall
       /\ \E k \in Kinds : \E t \in TemplateArgs(k) : \E p \in SchemeArgs(k) :
            \E n \in NameArgs : \E l \in LogoArgs : \E q \in QrArgs :
              Render(k, t, p, n, l, q)
    \/ /\ rin = NoCall
       /\ \E t \in TemplateArgs("advanced") :
            \E p \in SchemeArgs("advanced") :
              \E n \in NameArgs : \E l \in LogoArgs : \E q \in QrArgs :
                RenderHd(t, p, n, l, q)

SpecRender == Init /\ [][NextRender]_vars

NextQr ==
    /\ qin = NoCall
    /\ \E kind \in Kinds : \E data \in [QrFields -> FieldTexts] :
         GenerateQr(kind, data)

SpecQr == Init /\ [][NextQr]_vars

NextExport ==
    \/ (now < MaxExportTime /\ Tick)
    \/ \E m \in AtomicExports : \E n \in NameArgs : \E ok \in BOOLEAN :
         Export(m, n, ok)
    \/ \E n \in NameArgs : ExportHdBegin(n)
    \/ \E ok \in BOOLEAN : ExportHdEnd(ok)
    \/ \E hdr \in Headers : \E fmt \in Formats : RoutesBatchProcess(hdr, fmt)
    \/ \E hdr \in Headers : \E fmt \in Formats : NewRoutesBatchProcess(hdr, fmt)
    \/ \E hdr \in Headers : \E fmt \in Formats : BatchExportPremium(hdr, fmt)
    \/ \E row \in RowsOf(breq.header) : \E ok \in BOOLEAN : BatchRow(row, ok)
    \/ BatchArchive
    \/ BatchReturn

SpecExport == Init /\ [][NextExport]_vars

LoopStep ==
    \/ \E t \in Threads : LoopCheck(t)
    \/ \E t \in Threads : Glob(t)
    \/ \E t \in Threads : SweepFile(t)
    \/ \E t \in Threads : Wake(t)

\* the sweeper as app.py runs it: started once by the import, never stopped
NextSweep ==
    \/ Tick
    \/ \E p \in AppPaths : AppWrite(p)
    \/ \E p \in ForeignPaths : ForeignWrite(p)
    \/ StartCheck("main")
    \/ StartSpawn("main")
    \/ LoopStep

SpecSweep == Init /\ [][NextSweep]_vars

\* the service under concurrent callers of start and stop
NextService ==
    \/ Tick
    \/ AppWrite(Path(ExportFolder, "business_card", 1, "png"))
    \/ \E c \in Callers : StartCheck(c)
    \/ \E c \in Callers : StartSpawn(c)
    \/ \E c \in Callers : StopCall(c)
    \/ \E c \in Callers : StopJoin(c)
    \/ LoopStep

SpecService == Init /\ [][NextService]_vars

\* the form submissions of two browser sessions
NextUpload ==
    \/ (now < MaxExportTime /\ Tick)
    \/ /\ Len(submitted) < MaxSubmits
       /\ \E route \in Routes : \E s \in Sessions : \E form \in Forms :
            \E file \in ClientFiles \cup {NoFile} :
              SaveCardData(route, s, form, file)

SpecUpload == Init /\ [][NextUpload]_vars

\* downloads of exported cards while the sweeper runs
NextServe ==
    \/ Tick
    \/ StartCheck("main")
    \/ StartSpawn("main")
    \/ LoopStep
    \/ \E format \in RouteFormats : \E ok \in BOOLEAN :
         ExportCard(format, "Ann Lee", ok)
    \/ \E p \in serving : ServeEnd(p)

SpecServe == Init /\ [][NextServe]_vars

\* the sweeper among files that vanish or cannot be removed
NextSweepErr ==
    \/ Tick
    \/ \E p \in AppPaths : AppWrite(p)
    \/ \E p \in AppPaths : ForeignRemove(p)
    \/ StartCheck("main")
    \/ StartSpawn("main")
    \/ LoopStep
    \/ \E t \in Threads : SweepFileError(t)

SpecSweepErr == Init /\ [][NextSweepErr]_vars

\* the sweeper next to uploaded logos and a subdirectory of the exports
NextFrame ==
    \/ Tick
    \/ \E p \in AppPaths : AppWrite(p)
    \/ \E p \in OutsidePaths : ForeignWrite(p)
    \/ /\ submitted = <<>>
       /\ \E route \in Routes :
            SaveCardData(route, "s1", NoForm,
                         [dirs |-> "", stem |-> "logo", ext |-> "png",
                          image |-> TRUE])
    \/ StartCheck("main")
    \/ StartSpawn("main")
    \/ LoopStep

SpecFrame == Init /\ [][NextFrame]_vars

\* no thread is in the middle of a sweep: a sweep is short next to a step
\* of the clock
BetweenSweeps == \A t \in Threads : tpc[t] \notin {"glob", "files"}

\* the header of the batches of NextClean
FullHeader == RequiredColumns \cup {"include_qr"}

\* the rows of the batches of NextClean: a complete one and a short one
CleanRows ==
    {row \in RowsOf(FullHeader) :
       row.name = "Ann Lee" /\ row.include_qr \in {"yes", NoneVal}}

\* the requests that write files, made up to MaxExportTime, and the sweeper
\* app.py starts; the clock runs on to MaxTime
NextClean ==
    \/ (BetweenSweeps /\ Tick)
    \/ StartCheck("main")
    \/ StartSpawn("main")
    \/ LoopStep
    \/ /\ now <= MaxExportTime
       /\ \E format \in {"pdf", "html"} : \E ok \in BOOLEAN :
            ExportCard(format, "Ann Lee", ok)
    \/ (now <= MaxExportTime /\ GeneratePreviewCard("basic", "Ann Lee", TRUE))
    \/ (now <= MaxExportTime /\ RoutesBatchProcess(FullHeader, "png"))
    \/ /\ now <= MaxExportTime
       /\ \E row \in CleanRows : \E ok \in BOOLEAN : BatchRow(row, ok)
    \/ BatchArchive
    \/ BatchReturn
    \/ \E p \in serving : ServeEnd(p)

\* the clock advances, the import of app.py starts the service, and the
\* cleanup thread, a daemon nobody stops, keeps taking steps
SpecClean ==
    /\ Init
    /\ [][NextClean]_vars
    /\ WF_vars(BetweenSweeps /\ Tick)
    /\ WF_vars(StartCheck("main"))
    /\ WF_vars(StartSpawn("main"))
    /\ WF_vars(LoopStep)

(***************************************************************************)
(* Properties of the sweeper.                                              *)
(***************************************************************************)
Sleeping == {t \in Threads : tpc[t] = "sleep"}
Alive == {t \in Threads : tpc[t] \notin {"unborn", "exited"}}

\* the age of a file at a sweep tick
Age(tick, mtime) == tick - mtime

C7_AtMostOneLoop == Cardinality(Alive) <= 1

\* C8: once a stop_cleanup_service call has returned (and until the service
\* is started again) the sweeper deletes no further file: no file is deleted
\* by a loop after the return of a stop call.
C8_StopEndsSweeping ==
    lastDeleted # NoDeletion => ~lastDeleted.afterStop

InSweptFolders(p) == p.dir \in {ExportFolder, PreviewFolder}

\* the names the sweeper is written to look for
NamedForSweep(p) ==
    /\ p.prefix \notin HiddenPrefixes
    /\ \/ p.dir = ExportFolder /\ p.ext \in {"png", "pdf", "html", "zip"}
       \/ p.dir = PreviewFolder /\ p.ext \in {"png", "jpg", "jpeg"}

\* C9 as stated: after a sweep no file of the export or preview directory
\* older than the threshold is left, whatever its name or extension.
C9_AnyOldFileRemoved ==
    \A t \in Sleeping : \A p \in DOMAIN fs :
      InSweptFolders(p) => ~(Age(ttick[t], fs[p]) > CleanupInterval)

\* C9 amended: after a sweep no file older than the threshold is left whose
\* name matches one of the sweeper's patterns (*.png, *.pdf, *.html, *.zip in
\* the export directory; *.png, *.jpg, *.jpeg in the preview directory; no
\* leading dot), and the sweeper deletes no file of any other name.
C9_NamedOldFileRemoved ==
    /\ \A t \in Sleeping : \A p \in DOMAIN fs :
         NamedForSweep(p) => ~(Age(ttick[t], fs[p]) > CleanupInterval)
    /\ lastDeleted # NoDeletion => NamedForSweep(lastDeleted.path)

\* a sweep has ended that deleted a file and left in place an older-than-
\* threshold file whose name matches no pattern
C9_Witness ==
    \E t \in Sleeping :
      /\ lastDeleted # NoDeletion
      /\ lastDeleted.tick = ttick[t]
      /\ \E p \in DOMAIN fs :
           /\ InSweptFolders(p)
           /\ ~NamedForSweep(p)
           /\ Age(ttick[t], fs[p]) > CleanupInterval

(***************************************************************************)
(* Properties of construction and of generate_card.                        *)
(***************************************************************************)
RegistryPair(c) ==
    /\ c # NoCall
    /\ Get(c.data, "template", Absent) \in DOMAIN Templates(c.kind)
    /\ Get(c.data, "color_scheme", Absent) \in ColorSchemes(c.kind)

WellFormed(c) == \A f \in DOMAIN c.data : c.data[f] # NoneVal

\* C5: each generator class can be constructed, and rendering a well-formed
\* record with a template key and a palette key of its registries yields an
\* image of 1050x600, or of 2100x1200 on the HD export path.
C5_RegistryPairsRender ==
    /\ \A k \in Kinds : constructed[k] \in {"untried", "ok"}
    /\ (RegistryPair(rin) /\ WellFormed(rin)) =>
         /\ IsImage(rout)
         /\ rout.width = (IF rin.hd THEN 2100 ELSE 1050)
         /\ rout.height = (IF rin.hd THEN 1200 ELSE 600)

UnknownTemplate(c) ==
    Get(c.data, "template", Absent) \notin DOMAIN Templates(c.kind)
UnknownScheme(c) ==
    Get(c.data, "color_scheme", Absent) \notin ColorSchemes(c.kind)

\* C6: a generate_card call whose template key or palette key is not in the
\* registry (or is absent) does not raise on that account: an unknown template
\* key renders with the default template (modern / executive_premium), an
\* unknown palette key with the default palette (corporate_blue /
\* executive_navy), and a well-formed record whose template is the default or
\* a method the class defines yields an image.
C6_UnknownKeysFallBack ==
    (rin # NoCall /\ (UnknownTemplate(rin) \/ UnknownScheme(rin))) =>
       /\ rout.exc # "KeyError"
       /\ UnknownTemplate(rin) =>
            rout.template = (IF rin.kind = "basic" THEN "modern_template"
                             ELSE "executive_premium_template")
       /\ UnknownScheme(rin) =>
            rout.scheme = (IF rin.kind = "basic" THEN "corporate_blue"
                           ELSE "executive_navy")
       /\ (WellFormed(rin) /\ rout.template \in DefinedMethods(rin.kind)) =>
            IsImage(rout)

\* a call with neither key in the registry has returned an image drawn by the
\* default template in the default palette
C6_Witness ==
    /\ rin # NoCall
    /\ UnknownTemplate(rin)
    /\ UnknownScheme(rin)
    /\ "template" \in DOMAIN rin.data
    /\ IsImage(rout)
    /\ rout.template = "modern_template"
    /\ rout.scheme = "corporate_blue"

(***************************************************************************)
(* Properties of exports and batches.                                      *)
(***************************************************************************)
\* the entries of the archive that were written for row k
EntriesOf(k) == {j \in DOMAIN bentries : bentries[j].row = k}

\* C2: in a batch, a row whose rendering or export raises is skipped and the
\* loop goes on to the next row; the archive the call returns holds exactly
\* one entry for each row that was exported and none for any other row
C2_FailedRowsSkipped ==
    /\ \A k \in DOMAIN boutcomes :
          boutcomes[k] = "raised" =>
            (k < bi \/ epc = "row" \/ resp.status = "sent")
    /\ resp.status = "sent" =>
          /\ Len(boutcomes) = bi
          /\ \A k \in 1..bi :
                Cardinality(EntriesOf(k)) =
                  IF boutcomes[k] = "exported" THEN 1 ELSE 0

\* a returned batch whose first row failed and whose second row is archived
C2_Witness ==
    /\ resp.status = "sent"
    /\ Len(boutcomes) >= 2
    /\ boutcomes[1] = "raised"
    /\ boutcomes[2] = "exported"
    /\ EntriesOf(1) = {}
    /\ EntriesOf(2) # {}

\* C3: a batch request whose header lacks one of name, job_title, company,
\* email is answered with an error that names the missing columns, before
\* any row is read and before an archive or a card file is created
C3_MissingColumnsRejected ==
    (breq.route \in {"routes", "new_routes"}
       /\ RequiredColumns \ breq.header # {}) =>
      /\ resp = Response("rejected", RequiredColumns \ breq.header, NoPath)
      /\ bi = 0
      /\ bzip = NoPath

\* C4: the paths returned by any two export calls differ
C4_ReturnedPathsDistinct ==
    \A i, j \in DOMAIN returned :
      i # j => returned[i].path # returned[j].path

\* C10: the standalone file of every row that was added to the archive has
\* been removed from the export folder, during the loop and at return
C10_ArchivedFilesRemoved ==
    \A j \in DOMAIN bentries : bentries[j].file \notin DOMAIN fs

\* a returned batch that archived two rows
C10_Witness ==
    /\ resp.status = "sent"
    /\ Len(bentries) = 2
    /\ bentries[1].file # bentries[2].file

\* C11: within one archive every entry name carries the 1-based position of
\* its row in the input, and no two entries have the same name, also when
\* the rows' name fields are equal and when earlier rows were skipped
C11_EntryNamesDistinct ==
    /\ \A j \in DOMAIN bentries :
          bentries[j].arcname.index = bentries[j].row
    /\ \A j, k \in DOMAIN bentries :
          j # k => bentries[j].arcname.text # bentries[k].arcname.text

\* an archive with the entries of two rows whose names sanitise to the same
\* text
C11_Witness ==
    /\ Len(bentries) = 2
    /\ bentries[1].row # bentries[2].row
    /\ \E t \in {Underscored("Ann Lee")} :
          \A j \in 1..2 :
            \E a \in 1..Len(bentries[j].arcname.text) :
              \A b \in 1..Len(t) :
                /\ a + b - 1 <= Len(bentries[j].arcname.text)
                /\ bentries[j].arcname.text[a + b - 1] = t[b]

\* the contact fields of a record are all empty or absent, and it has no logo
EmptyRecord(data) ==
    /\ \A f \in {"name", "job_title", "company", "email", "phone", "website",
                  "address", "notes"} : f \in DOMAIN data => data[f] = ""
    /\ "logo_path" \notin DOMAIN data

\* C12: rendering a record whose contact fields are all empty or absent and
\* that has no logo returns an image, for every template of CardGenerator and
\* every template method AdvancedCardGenerator defines; nothing is raised
C12_EmptyRecordRenders ==
    (rin # NoCall /\ EmptyRecord(rin.data)
       /\ (rin.kind = "basic" \/ rout.template \in DefinedMethods(rin.kind))) =>
      /\ IsImage(rout)
      /\ ~rout.logo

\* the tech template, which upper-cases the name, has rendered a record
\* without a name
C12_Witness ==
    /\ rin # NoCall
    /\ rin.kind = "basic"
    /\ EmptyRecord(rin.data)
    /\ "name" \notin DOMAIN rin.data
    /\ "template" \in DOMAIN rin.data
    /\ rin.data["template"] = "tech"
    /\ IsImage(rout)
    /\ rout.template = "tech_template"

\* the position of the first tok in a text, 0 when there is none
FirstIndex(text, tok) ==
    IF \E i \in DOMAIN text : text[i] = tok
      THEN CHOOSE i \in DOMAIN text :
             text[i] = tok /\ \A j \in 1..(i - 1) : text[j] # tok
      ELSE 0

\* a text cut into its lines
RECURSIVE SplitLines(_)
SplitLines(text) ==
    LET i == FirstIndex(text, Newline)
    IN  IF i = 0 THEN <<text>>
        ELSE <<SubSeq(text, 1, i - 1)>>
               \o SplitLines(SubSeq(text, i + 1, Len(text)))

\* a vCard content line is name *(";" param) ":" value
PropName(line) ==
    LET c == FirstIndex(line, ":")
        head == SubSeq(line, 1, c - 1)
        p == FirstIndex(head, ";")
    IN  IF c = 0 THEN <<>>
        ELSE IF p = 0 THEN head ELSE SubSeq(head, 1, p - 1)
PropValue(line) == SubSeq(line, FirstIndex(line, ":") + 1, Len(line))

\* the value a vCard reader gives for a property: that of its first line
ParseProp(text, prop) ==
    LET lines == SplitLines(text)
        hits == {k \in DOMAIN lines : PropName(lines[k]) = <<prop>>}
    IN  IF hits = {} THEN <<"<no such line>">>
        ELSE PropValue(lines[CHOOSE k \in hits : \A m \in hits : k <= m])

\* the vCard property that carries each field
PropOf ==
    [name |-> "FN", company |-> "ORG", job_title |-> "TITLE",
     email |-> "EMAIL", phone |-> "TEL", website |-> "URL", address |-> "ADR",
     notes |-> "NOTE"]

\* C13: reading the encoded vCard text back gives FN, ORG, TITLE, EMAIL, TEL
\* and URL equal to the record's name, company, job_title, email, phone and
\* website, also for values that hold a colon or a line break
C13_QrRoundTrip ==
    qin # NoCall =>
      \A f \in {"name", "company", "job_title", "email", "phone", "website"} :
        ParseProp(qout, PropOf[f]) = qin.data[f]

\* text holds part as a run of consecutive characters
Holds(text, part) ==
    \E a \in 0..(Len(text) - Len(part)) :
      \A b \in 1..Len(part) : text[a + b] = part[b]

\* C20: the payload is a vCard 3.0 block with a line for each of name,
\* company, job_title, email, phone, website, address and notes that carries
\* the field's value (checked on values without a line break)
C20_PayloadHasEveryField ==
    (qin # NoCall /\ \A f \in QrFields : FirstIndex(qin.data[f], Newline) = 0) =>
      /\ ParseProp(qout, "VERSION") = <<"3.0">>
      /\ \A f \in QrFields :
            Holds(ParseProp(qout, PropOf[f]), qin.data[f])

\* the record asks for the QR overlay
QrRequested(data) == "include_qr" \in DOMAIN data /\ data["include_qr"] = "True"

\* the record names a logo file that is missing or cannot be read
BadLogo(data) ==
    "logo_path" \in DOMAIN data /\ data["logo_path"] \in {LogoMissing, LogoCorrupt}

\* the call is one whose template method exists and whose fields are strings
Renderable(c, r) ==
    /\ c # NoCall
    /\ WellFormed(c)
    /\ r.template \in DefinedMethods(c.kind)

\* C14: with a logo path whose file is missing, unreadable or corrupt,
\* generate_card does not raise and returns the card without the logo, with
\* the QR overlay on it when the record asks for one
C14_BadLogoSkipped ==
    (Renderable(rin, rout) /\ BadLogo(rin.data)) =>
      /\ IsImage(rout)
      /\ ~rout.logo
      /\ QrRequested(rin.data) => rout.qr

\* C15: the rendered card carries the QR overlay exactly when the record's
\* include_qr option is set, whatever the template
C15_QrExactlyWhenRequested ==
    Renderable(rin, rout) =>
      /\ IsImage(rout)
      /\ rout.qr <=> QrRequested(rin.data)

\* the spellings of the include_qr cell that ask for the QR overlay
EnablingCells == {"true", "TRUE", "1", "yes", "YES"}

\* C16: in both batch paths a row's card carries the QR overlay exactly when
\* its include_qr cell is "true", "1" or "yes" in any letter case
C16_BatchQrColumn ==
    \A j \in DOMAIN bentries :
      bentries[j].qr <=> bentries[j].cell \in EnablingCells

\* C17: a PDF exported when not in print mode has a page of the physical
\* card size, 3.5in by 2in: 252 by 144 points
C17_PdfPageIsCardSize ==
    (pdf # NoPdf /\ ~pdf.print) =>
      /\ pdf.page_width = 252
      /\ pdf.page_height = 144

\* C18: the print-ready PDF has a page larger than the card-sized page, with
\* a margin around the card image, and its page differs from the page the
\* standard export of the same class gives
C18_PrintReadyPageLarger ==
    (pdf # NoPdf /\ pdf.print) =>
      /\ pdf.page_width > 252
      /\ pdf.page_height > 144
      /\ pdf.page_width > pdf.image_width
      /\ pdf.page_height > pdf.image_height
      /\ LET standard == PdfLayout(IF pdf.method = "export_pdf_print"
                                     THEN "export_pdf"
                                     ELSE "export_premium_pdf",
                                   CardWidth, CardHeight)
         IN  <<pdf.page_width, pdf.page_height>>
               # <<standard.page_width, standard.page_height>>

\* C19: outside a running export_png_hd call the canvas of every generator
\* is the configured 1050 by 600, after any export or batch operation has
\* returned or raised; the registries are written by __init__ alone
C19_CanvasRestored ==
    epc # "hd" =>
      \A k \in Kinds : card_width[k] = 1050 /\ card_height[k] = 600

\* an HD export that ran on the doubled canvas has returned its file
C19_Witness ==
    /\ epc = "idle"
    /\ \E i \in DOMAIN returned : returned[i].call = "export_png_hd"
    /\ card_width["advanced"] = 1050
    /\ card_height["advanced"] = 600

(***************************************************************************)
(* Properties of save_card_data.                                           *)
(***************************************************************************)
LastSubmit == submitted[Len(submitted)]
LogoPath(data) == Get(data, "logo_path", NoPath)

\* C21: an uploaded logo is accepted, its path stored as the session's
\* logo_path, only after it was verified as an image; a file that fails the
\* verification is not in the upload folder afterwards, the session's
\* logo_path is not set to it and an error is shown to the user
C21_LogoVerifiedBeforeAccepted ==
    [][ submitted' # submitted =>
          LET r == submitted'[Len(submitted')]
          IN  (r.path # NoPath /\ ~r.file.image) =>
                /\ r.path \notin DOMAIN fs'
                /\ LogoPath(session'[r.session]) = LogoPath(session[r.session])
                /\ InvalidImage \in flashed'[r.session] ]_vars

\* C29: the logos two different sessions uploaded are never stored at the
\* same path, whatever the client file names and the times of the uploads
C29_UploadPathsDistinct ==
    \A a, b \in Sessions :
      (a # b /\ LogoPath(session[a]) # NoPath) =>
        LogoPath(session[a]) # LogoPath(session[b])

\* C30: after save_card_data of new_routes.py has handled a submission, each
\* of name_size, title_size, company_size and contact_size holds an integer:
\* the submitted value when it parses as one, the default of the field
\* (72, 32, 28, 24) otherwise
C30_SizesAreIntegers ==
    (submitted # <<>> /\ LastSubmit.route = "new_routes") =>
      \A f \in NumericFields :
        LET r == PyInt(FormGet(LastSubmit.form, f, StrVal(<<>>)))
        IN  session[LastSubmit.session][f] =
              IF r.ok THEN IntVal(r.val) ELSE IntVal(SizeDefaults[f])

(***************************************************************************)
(* Properties of the sweeper next to the requests.                         *)
(***************************************************************************)
\* the files a step of thread t has taken from its list
Visited(t) == IF tpc[t] = "files" THEN tlist[t] \ tlist'[t] ELSE {}

\* C22: the sweeper treats a file a response is still streaming like any
\* other: when a sweep comes to such a file and the file's age at the sweep's
\* tick is above the threshold, the file is deleted, and the response goes
\* on serving it
C22_ServedFileSweptByAge ==
    [][ \A t \in Threads : \A p \in Visited(t) :
          (p \in serving /\ p \in DOMAIN fs
             /\ Age(ttick[t], fs[p]) > CleanupInterval) =>
            (p \notin DOMAIN fs' /\ p \in serving') ]_vars

\* a file has been deleted by the sweeper while its response is streaming
C22_Witness ==
    \E p \in serving : p \notin DOMAIN fs /\ lastDeleted.path = p

(***************************************************************************)
(* Properties of the batch exports under rows of any shape.                *)
(***************************************************************************)
\* C23: a batch export call that was handed a reader (its input passed the
\* header check) returns the path of the archive whatever the rows are, also
\* for no rows and when every row fails: no error of a row reaches the caller
C23_BatchAlwaysReturnsArchive ==
    (epc = "idle" /\ bzip # NoPath) => resp = Response("sent", {}, bzip)

\* C24: a row with fewer cells than the header, whose include_qr or name is
\* None, is passed over like any other bad row: building its record does not
\* end the batch, and the rows after it are read
C24_ShortRowSkipped ==
    \A k \in DOMAIN boutcomes : boutcomes[k] # "aborted"

\* C27: export_pdf leaves no temporary image behind: once it has returned or
\* raised, no temp_<uuid>.png it wrote is in the export folder
C27_NoTempImageLeft ==
    \A p \in DOMAIN fs : ~(p.dir = ExportFolder /\ p.prefix = "temp")

\* C25: an exception while a sweep checks or deletes one file does not stop
\* the sweep: the thread goes on with the files left in its list, then with
\* the patterns left, of both directories, and after the last one sleeps
\* until the next tick
C25_ErrorDoesNotStopSweep ==
    [][ lastError' # lastError =>
          LET t == lastError'.thread
              left == tlist[t] \ {lastError'.path}
          IN  /\ tlist'[t] = left
              /\ left # {} => (tpc'[t] = "files" /\ tpat'[t] = tpat[t])
              /\ (left = {} /\ tpat[t] < Len(Patterns)) =>
                   (tpc'[t] = "glob" /\ tpat'[t] = tpat[t] + 1)
              /\ (left = {} /\ tpat[t] = Len(Patterns)) =>
                   (tpc'[t] = "sleep" /\ twake'[t] = now + SleepSeconds) ]_vars

\* a sweep got an exception on a file of the export folder that was removed
\* after the listing and, after that, deleted a file of the preview folder
C25_Witness ==
    /\ lastError # NoDeletion
    /\ lastError.gone
    /\ lastError.path.dir = ExportFolder
    /\ lastDeleted # lastError.deleted
    /\ lastDeleted.tick = lastError.tick
    /\ lastDeleted.path.dir = PreviewFolder

\* C28: a sweep deletes nothing outside the export and the preview folder: a
\* file of the upload folder, such as the logo a session refers to, and a
\* file of a subdirectory stay whatever their age
C28_SweepLeavesOtherFolders ==
    [][ \A p \in DOMAIN fs :
          (p.dir \notin SweptFolders /\ p \notin DOMAIN fs') =>
            lastDeleted' = lastDeleted ]_vars

\* a sweep that deleted a file has ended while the logo of a session and a
\* file of a subdirectory, both above the threshold at its tick, are there
C28_Witness ==
    \E t \in Threads : \E q \in OutsidePaths :
      /\ tpc[t] = "sleep"
      /\ lastDeleted # NoDeletion
      /\ lastDeleted.tick = ttick[t]
      /\ LogoPath(session["s1"]) \in DOMAIN fs
      /\ Age(ttick[t], fs[LogoPath(session["s1"])]) > CleanupInterval
      /\ q \in DOMAIN fs
      /\ Age(ttick[t], fs[q]) > CleanupInterval

\* the files of the export and the preview folder that sweeps look at
SweptFiles == {p \in DOMAIN fs : p.dir \in SweptFolders}

\* C26: every file a preview, an export or a batch writes into the export or
\* the preview folder (PNG, PDF, HTML page and its card image, temporary PDF
\* image, archive, preview image) is removed in the end, by the operation or
\* by a sweep, as long as the sweeper keeps running: once the writes are
\* over, the two folders become empty and stay empty
C26_WrittenFilesRemoved == <>[](SweptFiles = {})

\* exports have returned files and every file written is gone, the last of
\* them deleted by a sweep
C26_Witness ==
    /\ returned # <<>>
    /\ uuidCtr > Len(returned)
    /\ SweptFiles = {}
    /\ lastDeleted # NoDeletion

====
